---- MODULE Spec2Model ----
(***************************************************************************)
(* Model of the Obsidian "Google Docs" plugin (GoogleDocsPlugin):          *)
(*   src/main.ts           the current build: getAuth, openGoogleDoc,      *)
(*                         createGoogleDoc, GoogleDocSettingTab            *)
(*   src/unnamed/part_000  the earlier build: createGoogleDoc with the     *)
(*                         authorization code inlined and the comment      *)
(*                         check commented out                             *)
(* One plugin instance runs on a single-threaded event loop.  Every        *)
(* `await` of a collaborator (hasValidToken, getNewToken, tokenPromise,    *)
(* findOrCreateDoc, hasOpenComments, updateHtml) is a suspension point; an *)
(* action of the model is the code that runs between two suspension        *)
(* points of one invocation.                                               *)
(***************************************************************************)
EXTENDS Integers, Sequences, FiniteSets, TLC

\* ---------------------------------------------------------------- bounds
\* What happens from outside in one run: commands invoked, fields changed in
\* the settings tab, comments opened or resolved on a remote document.
MaxEvents == 2

\* Invocations that can be suspended at the same time.
Procs == {1, 2}

\* ------------------------------------------------------------ value sets
Null == 0                    \* authorizationServer: any = null
Undefined == [client |-> "undefined"]       \* what `return` yields
Titles == {"Notes"}                         \* view.file.basename
Contents == {"# Hello", "v2"}               \* editor.getValue()
Folders == {"", "folder"}                   \* settings.googleDriveFolderId
GoodCredentials == "{installed}"
CredentialBlobs == {"", GoodCredentials}    \* settings.credentials
Kinds == {"push", "open"}
Builds == {"main", "part_000"}

\* Token sets are named by a number: 0 is one issued before this run, n > 0
\* the one the round-trip of listener n yields.
NullValue == [access |-> -1]                \* JSON null
SyntaxError == [access |-> -2]              \* JSON.parse throws

\* ------------------------------------------------- pure helper functions
\* A token blob is the text of a JSON value, modelled as a sequence of
\* lexical pieces: <<>> is the empty string, <<"null">> is `null`,
\* <<"{", n, "}">> is the object of token set n, <<"{">> is cut-off text.
JSONstringify(tokens) == <<"{", tokens.access, "}">>

\* A parser that reads any text it cannot parse as `null`.
JSONparseLenient(text) ==
  IF Len(text) = 3 /\ text[1] = "{" /\ text[3] = "}"
  THEN [access |-> text[2]]
  ELSE NullValue

JSONparse(text) ==
  IF text = <<"null">> THEN NullValue
  ELSE IF Len(text) = 3 /\ text[1] = "{" /\ text[3] = "}"
       THEN [access |-> text[2]]
       ELSE SyntaxError

TokenBlobs == {<<>>, <<"{">>, <<"null">>, JSONstringify([access |-> 0])}

\* A link that does not carry the document's id.
googleDocsUrlWithoutId(documentId) ==
  [base |-> "https://docs.google.com/document/d/", id |-> 0]

googleDocsUrl(documentId) ==
  [base |-> "https://docs.google.com/document/d/", id |-> documentId]

authorizeUrlOf(server) == [base |-> "authorizeUrl", id |-> server]
NoUrl == [base |-> "", id |-> 0]

\* A client factory that accepts any blob, the empty one included.
getClientAcceptsAll(credentialContent) == FALSE

\* getClient({credentialContent}): throws on a missing or malformed blob.
getClientThrows(credentialContent) == credentialContent # GoodCredentials
getClient(credentialContent) == [client |-> credentialContent]

\* A guard test that lets every call through.
GuardNeverEngaged(server) == FALSE

\* if (this.authorizationServer)
GuardEngaged(server) == server # Null

\* One entry of an invocation's record of what it did.
Event(op, url, doc, text) == [op |-> op, url |-> url, doc |-> doc, text |-> text]
Notice(text) == Event("Notice", NoUrl, 0, text)
ClipboardWrite(url) == Event("clipboard.writeText", url, 0, "")
Opn(url) == Event("opn", url, 0, "")

\* ------------------------------------------------------------------ state
VARIABLES
  build,                \* which source file is running: "main" or "part_000"
  settings,             \* this.settings: GoogleDocsSettings
  authorizationServer,  \* this.authorizationServer
  call,                 \* per invocation: position and local variables
  trace,                \* per invocation: what it has done so far, in order
  clipboard,            \* navigator.clipboard: the last text written
  timers,               \* setTimeout callbacks not yet run (by server)
  browser,              \* urls handed to opn
  listeners,            \* callback listeners getNewToken has started
  saving,               \* a saveData(this.settings) has not finished yet
  documents,            \* remote store: <<title, folder>> -> id (0: none)
  body,                 \* remote store: id -> content of the document
  comments,             \* remote store: ids of documents with open comments
  validTokens,          \* token sets the authorization server accepts
  authCompleted,        \* some authorization round-trip has succeeded
  events                \* outside events so far (see MaxEvents)

vars == <<build, settings, authorizationServer, call, trace, clipboard, timers,
          browser, listeners, saving, documents, body, comments,
          validTokens, authCompleted, events>>

DocKeys == Titles \X Folders
DocIds == 1..Cardinality(DocKeys)

\* hasValidToken(auth, tokens): false for an empty, expired or malformed token.
hasValidToken(auth, tokens) == tokens.access \in validTokens

\* const DEFAULT_SETTINGS / interface GoogleDocsSettings
SettingsRecords ==
  [googleDriveFolderId : Folders, credentials : CredentialBlobs, tokens : TokenBlobs]

\* The local variables of one invocation, its position (pc), how its getAuth
\* part and the whole ended, and the state it found on entry.
IdleCall ==
  [pc |-> "idle", kind |-> "push", title |-> "Notes", content |-> "# Hello",
   auth |-> Undefined, tokens |-> NullValue, folderId |-> "", documentId |-> 0,
   server |-> Null, authOutcome |-> "none", outcome |-> "none",
   entryGuard |-> Null, entryTokens |-> <<>>, entryCredentials |-> "",
   entryValid |-> FALSE, entryCompleted |-> FALSE, entryInFlight |-> FALSE,
   entryPrior |-> 0]

\* The state after onload(): loadSettings() has merged the saved data over
\* DEFAULT_SETTINGS; whatever the user saved in an earlier session is there.
Init ==
  /\ build \in Builds
  /\ settings \in {r \in SettingsRecords : r.googleDriveFolderId = ""}
  /\ authorizationServer = Null
  /\ call = [p \in Procs |-> IdleCall]
  /\ trace = [p \in Procs |-> <<>>]
  /\ clipboard = NoUrl
  /\ timers = {}
  /\ browser = {}
  /\ listeners = {}
  /\ saving = FALSE
  /\ documents = [k \in DocKeys |-> 0]
  /\ body = [d \in DocIds |-> <<>>]
  /\ comments = {}
  /\ validTokens \in {{}, {0}}
  /\ settings.tokens # JSONstringify([access |-> 0]) => validTokens = {0}
  /\ authCompleted = FALSE
  /\ events = 0

\* ------------------------------------------------------- invocation steps
\* An authorization flow is in flight from the call of getNewToken until
\* tokenPromise settles.
InFlight(c) == c.pc \in {"getNewToken", "tokenPromise"}

\* `const auth = await this.getAuth()` has produced a (auth or undefined):
\* the caller goes on to `await findOrCreateDoc(title, folderId, auth)`.
\* openGoogleDoc announces it first.  main.ts reads the folder from
\* this.settings at this point; part_000 took it as a parameter.
AfterGetAuth(c, a) ==
  [c EXCEPT !.auth = a,
            !.folderId = IF build = "main" THEN settings.googleDriveFolderId ELSE @,
            !.pc = "findOrCreateDoc"]

AfterGetAuthEvents(c, a) ==
  (IF c.kind = "open" THEN <<Notice("Opening Google Doc...")>> ELSE <<>>)
    \o <<Event("findOrCreateDoc", NoUrl, 0, c.title)>>

\* The guard found engaged: getAuth() (main.ts) does `return`, so its caller
\* continues with auth = undefined; createGoogleDoc of part_000 returns.
AlreadyAuthenticating(c) ==
  IF build = "main"
  THEN AfterGetAuth([c EXCEPT !.authOutcome = "inProgress"], Undefined)
  ELSE [c EXCEPT !.authOutcome = "inProgress", !.pc = "done", !.outcome = "returned"]

AlreadyAuthenticatingEvents(c) ==
  <<Notice("Already authenticating, complete authorization.")>>
    \o (IF build = "main" THEN AfterGetAuthEvents(c, Undefined) ELSE <<>>)

\* An exception leaves the async function: the invocation ends rejected.
Rejected(c) == [c EXCEPT !.pc = "done", !.outcome = "rejected"]
AuthRejected(c, why) == Rejected([c EXCEPT !.authOutcome = why])

\* The editorCallback of a command, and the code it runs up to the first
\* suspension: the guard test, getClient, JSON.parse and the call of
\* hasValidToken.  The invocation takes the first free slot of Procs.
Invoke(p, k, t, md) ==
  /\ call[p].pc \in {"idle", "done"}
  /\ \A q \in Procs : q < p => call[q].pc \notin {"idle", "done"}
  /\ events < MaxEvents
  /\ build = "part_000" => k = "push"
  /\ k = "open" => md = "# Hello"   \* openGoogleDoc never reads markdownContents
  /\ events' = events + 1
  /\ LET c0 == [IdleCall EXCEPT
                  !.kind = k, !.title = t, !.content = md,
                  !.folderId = settings.googleDriveFolderId,
                  \* the state the invocation found (read by the properties only)
                  !.entryGuard = authorizationServer,
                  !.entryTokens = settings.tokens,
                  !.entryCredentials = settings.credentials,
                  !.entryValid = /\ ~getClientThrows(settings.credentials)
                                 /\ hasValidToken(getClient(settings.credentials),
                                                  JSONparse(settings.tokens)),
                  !.entryCompleted = authCompleted,
                  !.entryInFlight = \E q \in Procs : InFlight(call[q]),
                  !.entryPrior =
                     LET d == documents[<<t, settings.googleDriveFolderId>>]
                     IN IF d # 0 /\ body[d] = <<md>> THEN d ELSE 0]
     IN IF GuardEngaged(authorizationServer)
        THEN /\ call' = [call EXCEPT ![p] = AlreadyAuthenticating(c0)]
             /\ trace' = [trace EXCEPT ![p] = AlreadyAuthenticatingEvents(c0)]
        ELSE IF getClientThrows(settings.credentials)
        THEN /\ call' = [call EXCEPT ![p] = AuthRejected(c0, "configuration")]
             /\ trace' = [trace EXCEPT ![p] = <<Event("getClient", NoUrl, 0, "throws")>>]
        ELSE IF JSONparse(settings.tokens) = SyntaxError
        THEN /\ call' = [call EXCEPT ![p] = AuthRejected(c0, "syntax")]
             /\ trace' = [trace EXCEPT ![p] =
                           <<Event("getClient", NoUrl, 0, ""),
                             Event("JSON.parse", NoUrl, 0, "throws")>>]
        ELSE /\ call' = [call EXCEPT ![p] =
                           [c0 EXCEPT !.pc = "hasValidToken",
                                      !.auth = getClient(settings.credentials),
                                      !.tokens = JSONparse(settings.tokens)]]
             /\ trace' = [trace EXCEPT ![p] =
                           <<Event("getClient", NoUrl, 0, ""),
                             Event("JSON.parse", NoUrl, 0, ""),
                             Event("hasValidToken", NoUrl, 0, "")>>]
  /\ UNCHANGED <<build, settings, authorizationServer, clipboard, timers, browser,
                 listeners, saving, documents, body, comments, validTokens,
                 authCompleted>>

\* A getAuth that asks for a new token whatever hasValidToken answered.
NeedsNewTokenAlways(isValid) == TRUE

\* `if (!isValid)`: which way getAuth goes once hasValidToken has answered.
NeedsNewToken(isValid) == ~isValid

\* hasValidToken answers.  Valid: getAuth returns auth.  Otherwise
\* getNewToken(auth) is called.
HasValidTokenReturns(p) ==
  /\ call[p].pc = "hasValidToken"
  /\ LET c == call[p]
         isValid == hasValidToken(c.auth, c.tokens)
     IN IF NeedsNewToken(isValid)
        THEN /\ call' = [call EXCEPT ![p] = [c EXCEPT !.pc = "getNewToken"]]
             /\ trace' = [trace EXCEPT ![p] =
                            Append(@, Event("getNewToken", NoUrl, 0, ""))]
        ELSE /\ call' = [call EXCEPT ![p] =
                            AfterGetAuth([c EXCEPT !.authOutcome = "cached"], c.auth)]
             /\ trace' = [trace EXCEPT ![p] = @ \o AfterGetAuthEvents(c, c.auth)]
  /\ UNCHANGED <<build, settings, authorizationServer, clipboard, timers, browser,
                 listeners, saving, documents, body, comments, validTokens,
                 authCompleted, events>>

\* getNewToken answers [server, authorizeUrl, tokenPromise]: the notice, the
\* clipboard write, the 2 s timer and only then the guard; then the
\* invocation waits for tokenPromise.  Listeners are numbered as started.
GetNewTokenReturns(p) ==
  /\ call[p].pc = "getNewToken"
  /\ LET server == Cardinality(listeners) + 1
         authorizeUrl == authorizeUrlOf(server)
     IN /\ listeners' = listeners \cup {server}
        /\ clipboard' = authorizeUrl
        /\ timers' = timers \cup {server}
        /\ authorizationServer' = server
        /\ call' = [call EXCEPT ![p] = [@ EXCEPT !.pc = "tokenPromise", !.server = server]]
        /\ trace' = [trace EXCEPT ![p] = @ \o
             <<Notice("Authenticate to continue. A browser window will open and authorization url is copied to clipboard."),
               ClipboardWrite(authorizeUrl),
               Event("setTimeout", authorizeUrl, 0, "")>>]
  /\ UNCHANGED <<build, settings, browser, saving, documents, body, comments,
                 validTokens, authCompleted, events>>

\* setTimeout(() => opn(authorizeUrl), 2000) runs.
TimerFires(server) ==
  /\ server \in timers
  /\ timers' = timers \ {server}
  /\ browser' = browser \cup {authorizeUrlOf(server)}
  /\ UNCHANGED <<build, settings, authorizationServer, call, trace, clipboard,
                 listeners, saving, documents, body, comments, validTokens,
                 authCompleted, events>>

\* tokenPromise resolves: the tokens are stored and saveSettings() is
\* started (not awaited); getAuth returns auth.  authorizationServer is
\* not assigned here nor anywhere else after line 86.
TokenPromiseResolves(p) ==
  /\ call[p].pc = "tokenPromise"
  /\ LET c == call[p]
         tokens == [access |-> c.server]
         stored == [settings EXCEPT !.tokens = JSONstringify(tokens)]
     IN /\ validTokens' = validTokens \cup {tokens.access}
        /\ settings' = stored
        /\ saving' = TRUE
        /\ authCompleted' = TRUE
        /\ call' = [call EXCEPT ![p] =
                      AfterGetAuth([c EXCEPT !.authOutcome = "authorized"], c.auth)]
        /\ trace' = [trace EXCEPT ![p] = @ \o
                      <<Event("saveSettings", NoUrl, 0, ""),
                        Notice("Authentication complete!")>>
                      \o AfterGetAuthEvents(c, c.auth)]
  /\ UNCHANGED <<build, authorizationServer, clipboard, timers, browser, listeners,
                 documents, body, comments, events>>

\* tokenPromise rejects (timeout, denial, network error): the exception
\* leaves getAuth and its caller; no handler runs.
TokenPromiseRejects(p) ==
  /\ call[p].pc = "tokenPromise"
  /\ call' = [call EXCEPT ![p] = AuthRejected(@, "failed")]
  /\ UNCHANGED <<build, settings, authorizationServer, trace, clipboard, timers,
                 browser, listeners, saving, documents, body, comments,
                 validTokens, authCompleted, events>>

\* An openGoogleDoc that goes on like createGoogleDoc.
AfterFindOrCreateDocAsPush(kind) ==
  IF build = "main" THEN "hasOpenComments" ELSE "updateHtml"

\* A createGoogleDoc that writes straight after findOrCreateDoc.
AfterFindOrCreateDocSkipsCheck(kind) ==
  IF kind = "open" THEN "opn" ELSE "updateHtml"

\* What follows `documentId = await findOrCreateDoc(...)`: openGoogleDoc
\* launches the browser; createGoogleDoc asks for open comments (main.ts) or
\* writes at once (part_000, where the check is commented out).
AfterFindOrCreateDoc(kind) ==
  IF kind = "open" THEN "opn"
  ELSE IF build = "main" THEN "hasOpenComments" ELSE "updateHtml"

\* findOrCreateDoc: the document of that title in that folder, created with
\* the next free id if there is none.
findOrCreateDoc(title, folderId) ==
  IF documents[<<title, folderId>>] # 0
  THEN documents[<<title, folderId>>]
  ELSE Cardinality({k \in DocKeys : documents[k] # 0}) + 1

\* findOrCreateDoc answers.  Without a credential the remote store answers
\* no request (see RemoteCallFails).
FindOrCreateDocReturns(p) ==
  /\ call[p].pc = "findOrCreateDoc"
  /\ call[p].auth # Undefined
  /\ LET c == call[p]
         documentId == findOrCreateDoc(c.title, c.folderId)
         documentUrl == googleDocsUrl(documentId)
         next == AfterFindOrCreateDoc(c.kind)
     IN /\ documents' = [documents EXCEPT ![<<c.title, c.folderId>>] = documentId]
        /\ IF next = "opn"
           THEN /\ call' = [call EXCEPT ![p] =
                     [c EXCEPT !.documentId = documentId, !.pc = "done", !.outcome = "opened"]]
                /\ trace' = [trace EXCEPT ![p] = Append(@, Opn(documentUrl))]
                /\ browser' = browser \cup {documentUrl}
           ELSE /\ call' = [call EXCEPT ![p] =
                     [c EXCEPT !.documentId = documentId, !.pc = next]]
                /\ trace' = [trace EXCEPT ![p] =
                     Append(@, Event(next, NoUrl, documentId,
                                     IF next = "updateHtml" THEN c.content ELSE ""))]
                /\ UNCHANGED browser
  /\ UNCHANGED <<build, settings, authorizationServer, clipboard, timers,
                 listeners, saving, body, comments, validTokens, authCompleted,
                 events>>

\* A createGoogleDoc that writes whatever hasOpenComments answered (as
\* part_000 does, with the check commented out).
BlockedByCommentsNever(open) == FALSE

\* `if (await hasOpenComments(auth, documentId))`: TRUE takes the branch
\* that returns without writing.
BlockedByComments(open) == open

\* hasOpenComments answers.
HasOpenCommentsReturns(p) ==
  /\ call[p].pc = "hasOpenComments"
  /\ LET c == call[p]
         open == c.documentId \in comments
     IN IF BlockedByComments(open)
        THEN /\ call' = [call EXCEPT ![p] = [c EXCEPT !.pc = "done", !.outcome = "conflict"]]
             /\ trace' = [trace EXCEPT ![p] = @ \o
                  <<Event("hasOpenComments returns", NoUrl, c.documentId, "true"),
                    Notice("Document has open comments. Please resolve them before pushing content."),
                    ClipboardWrite(googleDocsUrl(c.documentId))>>]
             /\ clipboard' = googleDocsUrl(c.documentId)
        ELSE /\ call' = [call EXCEPT ![p] = [c EXCEPT !.pc = "updateHtml"]]
             /\ trace' = [trace EXCEPT ![p] = @ \o
                  <<Event("hasOpenComments returns", NoUrl, c.documentId,
                          IF open THEN "true" ELSE "false"),
                    Event("updateHtml", NoUrl, c.documentId, c.content)>>]
             /\ UNCHANGED clipboard
  /\ UNCHANGED <<build, settings, authorizationServer, timers, browser, listeners,
                 saving, documents, body, comments, validTokens, authCompleted,
                 events>>

\* updateHtml(documentId, content, auth, { wipe: true }): the document's
\* content, a sequence of pushed texts, becomes the one text.
updateHtml(old, content) == <<content>>

\* updateHtml answers: the link goes to the clipboard, then the notice.
UpdateHtmlReturns(p) ==
  /\ call[p].pc = "updateHtml"
  /\ LET c == call[p]
     IN /\ body' = [body EXCEPT ![c.documentId] = updateHtml(@, c.content)]
        /\ clipboard' = googleDocsUrl(c.documentId)
        /\ call' = [call EXCEPT ![p] = [c EXCEPT !.pc = "done", !.outcome = "updated"]]
        /\ trace' = [trace EXCEPT ![p] = @ \o
             <<ClipboardWrite(googleDocsUrl(c.documentId)), Notice("Document updated.")>>]
  /\ UNCHANGED <<build, settings, authorizationServer, timers, browser, listeners,
                 saving, documents, comments, validTokens, authCompleted, events>>

\* A remote-store call fails: the exception leaves the async function
\* (neither function has a try/catch).  A call made with auth = undefined
\* can only fail.
RemoteCallFails(p) ==
  /\ call[p].pc \in {"findOrCreateDoc", "hasOpenComments", "updateHtml"}
  /\ call' = [call EXCEPT ![p] = Rejected(@)]
  /\ UNCHANGED <<build, settings, authorizationServer, trace, clipboard, timers,
                 browser, listeners, saving, documents, body, comments,
                 validTokens, authCompleted, events>>

\* ------------------------------------------------------------ settings tab
\* An onChange handler of GoogleDocSettingTab.display(): assign the field,
\* then saveSettings().
SettingChanged(stored) ==
  /\ events < MaxEvents
  /\ stored # settings
  /\ events' = events + 1
  /\ settings' = stored
  /\ saving' = TRUE
  /\ UNCHANGED <<build, authorizationServer, call, trace, clipboard, timers,
                 browser, listeners, documents, body, comments, validTokens,
                 authCompleted>>

\* A folder field whose handler also resets the stored tokens.
SetFolderIdResetsTokens(value) ==
  SettingChanged([settings EXCEPT !.googleDriveFolderId = value, !.tokens = <<>>])

SetFolderId(value) == SettingChanged([settings EXCEPT !.googleDriveFolderId = value])
SetCredentials(value) == SettingChanged([settings EXCEPT !.credentials = value])
SetTokens(value) == SettingChanged([settings EXCEPT !.tokens = value])

\* saveData(this.settings) finishes writing.  Every assignment to a field
\* of this.settings is followed by saveSettings(), so once no save is in
\* progress the saved data equal this.settings.
SaveCompletes ==
  /\ saving
  /\ saving' = FALSE
  /\ UNCHANGED <<build, settings, authorizationServer, call, trace, clipboard,
                 timers, browser, listeners, documents, body, comments,
                 validTokens, authCompleted, events>>

\* ------------------------------------------------------------ environment
\* A reviewer opens a comment on a document, or the last one is resolved.
CommentsChange(d) ==
  /\ events < MaxEvents
  /\ events' = events + 1
  /\ d \in {documents[k] : k \in DocKeys} \ {0}
  /\ comments' = IF d \in comments THEN comments \ {d} ELSE comments \cup {d}
  /\ UNCHANGED <<build, settings, authorizationServer, call, trace, clipboard,
                 timers, browser, listeners, saving, documents, body, validTokens,
                 authCompleted>>

Next ==
  \/ \E p \in Procs, k \in Kinds, t \in Titles, md \in Contents : Invoke(p, k, t, md)
  \/ \E p \in Procs : HasValidTokenReturns(p)
  \/ \E p \in Procs : GetNewTokenReturns(p)
  \/ \E server \in timers : TimerFires(server)
  \/ \E p \in Procs : TokenPromiseResolves(p)
  \/ \E p \in Procs : TokenPromiseRejects(p)
  \/ \E p \in Procs : FindOrCreateDocReturns(p)
  \/ \E p \in Procs : HasOpenCommentsReturns(p)
  \/ \E p \in Procs : UpdateHtmlReturns(p)
  \/ \E p \in Procs : RemoteCallFails(p)
  \/ \E value \in Folders : SetFolderId(value)
  \/ \E value \in CredentialBlobs : SetCredentials(value)
  \/ \E value \in TokenBlobs : SetTokens(value)
  \/ SaveCompletes
  \/ \E d \in DocIds : CommentsChange(d)

Spec == Init /\ [][Next]_vars

\* ================================================================ properties
\* Reading an invocation's record of what it did.
Indices(p, op) == {i \in DOMAIN trace[p] : trace[p][i].op = op}
Count(p, op) == Cardinality(Indices(p, op))
RemoteStoreOps == {"findOrCreateDoc", "hasOpenComments", "updateHtml"}
RemoteStoreCalls(p) == {i \in DOMAIN trace[p] : trace[p][i].op \in RemoteStoreOps}
Started(p) == call[p].pc # "idle"
Finished(p) == call[p].pc = "done"
\* getAuth (or the inlined authorization code) is over for this invocation.
AuthOver(p) == call[p].pc \notin {"idle", "hasValidToken", "getNewToken", "tokenPromise"}

\* C1 (as claimed): single-flight authorization.  At no time are two
\* authorization flows in flight, and no second new-token listener is
\* started while one flow is pending.
C1_SingleFlight ==
  Cardinality({p \in Procs : InFlight(call[p])}) <= 1

\* C2 (as claimed): cached-token reuse after authorization.  An invocation
\* that starts after a successful authorization round-trip, with no flow in
\* flight and a stored token that hasValidToken accepts, gets the credential
\* from getAuth: it is not rejected as already authenticating and starts no
\* new flow.
C2_CachedTokenReuse ==
  \A p \in Procs :
    ( /\ Started(p)
      /\ call[p].entryCompleted
      /\ call[p].entryValid
      /\ ~call[p].entryInFlight )
    => /\ call[p].authOutcome \in {"none", "cached"}
       /\ call[p].authOutcome = "none" => call[p].pc = "hasValidToken"
       /\ Count(p, "getNewToken") = 0

\* C4 (as claimed): an invocation whose getAuth yields no credential (already
\* authenticating, configuration error, failed round-trip) ends with that
\* failure and issues no remote-store call.
C4_NoCredentialNoRemoteCall ==
  \A p \in Procs :
    call[p].authOutcome \in {"inProgress", "configuration", "syntax", "failed"}
    => /\ Finished(p)
       /\ RemoteStoreCalls(p) = {}

\* C5 (as claimed): with valid credentials and no pending session, a token
\* blob that is absent (empty) or invalid makes getAuth issue exactly one
\* new-token request, and the blob stored when the token promise resolves
\* passes the validity check.
C5_NewTokenWhenInvalidOrAbsent ==
  \A p \in Procs :
    ( /\ Started(p)
      /\ ~getClientThrows(call[p].entryCredentials)
      /\ ~GuardEngaged(call[p].entryGuard)
      /\ \/ call[p].entryTokens = <<>>
         \/ /\ JSONparse(call[p].entryTokens) # SyntaxError
            /\ ~call[p].entryValid )
    => /\ call[p].pc # "hasValidToken" => Count(p, "getNewToken") = 1
       /\ call[p].authOutcome = "authorized" =>
            hasValidToken(call[p].auth,
                          JSONparse(JSONstringify([access |-> call[p].server])))

\* C6 (as claimed): when the token promise rejects, getAuth fails and the
\* guard no longer holds that flow's server, so a later call can start a
\* fresh flow.
C6_FailureReleasesGuard ==
  \A p \in Procs :
    call[p].authOutcome = "failed" => authorizationServer # call[p].server

\* The clipboard writes of an invocation, in order.
ClipboardWrites(p) == SelectSeq(trace[p], LAMBDA e : e.op = "clipboard.writeText")
\* hasOpenComments has answered true to this invocation.
SawOpenComments(p) ==
  \E i \in Indices(p, "hasOpenComments returns") : trace[p][i].text = "true"

\* C3: conflict short-circuit.  A push to which hasOpenComments answers true
\* never calls updateHtml, ends there, and the link it copies to the
\* clipboard is the link of the document findOrCreateDoc returned for its
\* title and folder.
C3_ConflictShortCircuit ==
  \A p \in Procs :
    SawOpenComments(p)
    => /\ Count(p, "updateHtml") = 0
       /\ call[p].pc = "done" /\ call[p].outcome = "conflict"
       /\ call[p].documentId = documents[<<call[p].title, call[p].folderId>>]
       /\ call[p].documentId # 0
       /\ ClipboardWrites(p) # <<>>
       /\ ClipboardWrites(p)[Len(ClipboardWrites(p))].url
            = googleDocsUrl(call[p].documentId)

C3_Witness ==
  \E p \in Procs :
    /\ call[p].kind = "push" /\ call[p].outcome = "conflict"
    /\ SawOpenComments(p)
    /\ clipboard = googleDocsUrl(call[p].documentId)

\* The invocation found a token that hasValidToken accepts, and no guard.
FoundValidToken(p) ==
  Started(p) /\ call[p].entryValid /\ ~GuardEngaged(call[p].entryGuard)

\* Position in the record of the call that follows getAuth.
FirstRemoteCall(p) == CHOOSE i \in Indices(p, "findOrCreateDoc") : TRUE

C7_Returned ==
  \A p \in Procs :
    (FoundValidToken(p) /\ call[p].pc # "hasValidToken")
    => /\ call[p].authOutcome = "cached"
       /\ call[p].auth = getClient(call[p].entryCredentials)
       /\ Count(p, "getNewToken") = 0
       /\ Count(p, "setTimeout") = 0
       /\ Count(p, "saveSettings") = 0
       /\ Count(p, "findOrCreateDoc") = 1
       /\ \A i \in 1..FirstRemoteCall(p) :
            trace[p][i].op \notin {"clipboard.writeText", "opn"}

C7_Step ==
  \A p \in Procs :
    ( /\ call[p].pc \in {"idle", "done", "hasValidToken"}
      /\ call'[p].pc # call[p].pc
      /\ FoundValidToken(p)' )
    => UNCHANGED <<settings, authorizationServer, clipboard, timers, browser,
                   listeners, saving, validTokens>>

\* C7: with a valid cached token getAuth returns the client with no side
\* effects: no new-token request, no browser launch (none scheduled, none
\* made), no clipboard write, no saveSettings, and the steps of getAuth leave
\* settings.tokens and the guard as they were.
C7_ValidTokenNoSideEffects == []C7_Returned /\ [][C7_Step]_vars

C7_Witness ==
  \E p \in Procs :
    /\ FoundValidToken(p)
    /\ call[p].authOutcome = "cached"
    /\ call[p].pc = "findOrCreateDoc"
    /\ authorizationServer = Null

\* C8: open never calls hasOpenComments or updateHtml, whatever the state of
\* the document's comments and however it was authenticated; its one
\* remote-store call is findOrCreateDoc, and the browser launch of that
\* document's link follows it directly.
C8_OpenNeverWrites ==
  \A p \in Procs :
    (Started(p) /\ call[p].kind = "open")
    => /\ Count(p, "hasOpenComments") = 0
       /\ Count(p, "updateHtml") = 0
       /\ call[p].pc \notin {"hasOpenComments", "updateHtml"}
       /\ call[p].outcome \in {"none", "rejected", "opened"}
       /\ call[p].outcome = "opened" =>
            LET n == Len(trace[p])
            IN /\ Cardinality(RemoteStoreCalls(p)) = 1
               /\ trace[p][n - 1].op = "findOrCreateDoc"
               /\ call[p].documentId = documents[<<call[p].title, call[p].folderId>>]
               /\ call[p].documentId # 0
               /\ trace[p][n] = Opn(googleDocsUrl(call[p].documentId))
               /\ googleDocsUrl(call[p].documentId) \in browser

C8_Witness ==
  \E p \in Procs :
    /\ call[p].kind = "open"
    /\ call[p].outcome = "opened"
    /\ call[p].authOutcome = "authorized"

\* C9 (as claimed): push is idempotent when there is no conflict.  A push of
\* a title and content that an earlier push has already written (the
\* document of that title holds exactly that content), made with a valid
\* token and valid credentials, not answered true by hasOpenComments and with
\* no remote-store call of its own failing, updates the same document id,
\* copies the same link, and writes exactly `content`.
C9_PushIdempotent ==
  \A p \in Procs :
    ( /\ Finished(p)
      /\ call[p].kind = "push"
      /\ call[p].entryPrior # 0
      /\ documents[<<call[p].title, call[p].folderId>>] = call[p].entryPrior
      /\ call[p].entryValid
      /\ ~call[p].entryInFlight
      /\ ~SawOpenComments(p)
      /\ ~(call[p].outcome = "rejected" /\ call[p].auth # Undefined) )
    => /\ call[p].outcome = "updated"
       /\ call[p].documentId = call[p].entryPrior
       /\ \E i \in Indices(p, "updateHtml") :
            trace[p][i].doc = call[p].entryPrior /\ trace[p][i].text = call[p].content
       /\ ClipboardWrites(p)[Len(ClipboardWrites(p))].url
            = googleDocsUrl(call[p].entryPrior)

\* C10 (as claimed): a push or open that ends with a document link makes
\* exactly one clipboard write in the whole invocation, and it writes that
\* document's link.
C10_OneClipboardWrite ==
  \A p \in Procs :
    call[p].outcome \in {"conflict", "updated", "opened"}
    => /\ Len(ClipboardWrites(p)) = 1
       /\ ClipboardWrites(p)[1].url = googleDocsUrl(call[p].documentId)

\* The notices of an invocation, in order.
Notices(p) == SelectSeq(trace[p], LAMBDA e : e.op = "Notice")
NoticesOf(p, text) == SelectSeq(Notices(p), LAMBDA e : e.text = text)

\* C11 (as claimed): every terminal outcome of a push or open emits exactly
\* one notification for it.  Success: the one notice of the update or of
\* the opening.  Conflict: the one notice about open comments.  Already
\* authenticating: that notice and no other.  Any failure (of getAuth or of
\* a remote-store call): a notice after the failing call, the last thing
\* the invocation does.
C11_OneNotificationPerOutcome ==
  \A p \in Procs :
    Finished(p) =>
      /\ call[p].outcome = "updated" =>
           Len(NoticesOf(p, "Document updated.")) = 1
      /\ call[p].outcome = "opened" =>
           Len(NoticesOf(p, "Opening Google Doc...")) = 1
      /\ call[p].outcome = "conflict" =>
           Len(NoticesOf(p, "Document has open comments. Please resolve them before pushing content.")) = 1
      /\ call[p].authOutcome = "inProgress" =>
           Notices(p) = <<Notice("Already authenticating, complete authorization.")>>
      /\ (call[p].outcome = "rejected" /\ call[p].authOutcome # "inProgress") =>
           trace[p][Len(trace[p])].op = "Notice"

\* The invocation found no credentials blob in the settings.
FoundNoCredentials(p) == Started(p) /\ call[p].entryCredentials = ""

C12_Rejected ==
  \A p \in Procs :
    FoundNoCredentials(p)
    => /\ Count(p, "hasValidToken") = 0
       /\ Count(p, "getNewToken") = 0
       /\ Count(p, "setTimeout") = 0
       /\ Count(p, "opn") = 0
       /\ call[p].server = Null
       /\ ~GuardEngaged(call[p].entryGuard) =>
            /\ call[p].authOutcome = "configuration"
            /\ call[p].pc = "done" /\ call[p].outcome = "rejected"
            /\ trace[p] = <<Event("getClient", NoUrl, 0, "throws")>>
       /\ GuardEngaged(call[p].entryGuard) => call[p].authOutcome = "inProgress"

C12_Step ==
  \A p \in Procs :
    ( /\ FoundNoCredentials(p)'
      /\ (call'[p] # call[p] \/ trace'[p] # trace[p]) )
    => UNCHANGED <<settings, authorizationServer, timers, browser, listeners>>

C13_GuardExactlyWhileInProgress ==
  /\ GuardEngaged(authorizationServer) =>
       \E p \in Procs : call[p].pc = "tokenPromise"
  /\ (\E p \in Procs : call[p].pc = "tokenPromise") =>
       GuardEngaged(authorizationServer)

C14_Step ==
  \A p \in Procs :
    (call[p].pc = "tokenPromise" /\ call'[p].authOutcome = "authorized")
    => /\ ~saving'
       /\ settings'.tokens = JSONstringify([access |-> call[p].server])

\* C14 (as claimed): persist before return.  In the step in which getAuth
\* returns the credential after a successful round-trip (and its caller
\* issues findOrCreateDoc), the new token blob is in the settings and no
\* save of the settings is still under way.
C14_PersistBeforeReturn == [][C14_Step]_vars

\* The remote-store calls an invocation has issued, in order.
RemoteOpsOf(p) ==
  LET calls == SelectSeq(trace[p], LAMBDA e : e.op \in RemoteStoreOps)
  IN [i \in DOMAIN calls |-> calls[i].op]

\* The remote-store calls of a whole invocation: createGoogleDoc of main.ts,
\* createGoogleDoc of part_000 (its comment check is commented out), and
\* openGoogleDoc.
RemoteOrder(kind) ==
  IF kind = "open" THEN <<"findOrCreateDoc">>
  ELSE IF build = "main" THEN <<"findOrCreateDoc", "hasOpenComments", "updateHtml">>
  ELSE <<"findOrCreateDoc", "updateHtml">>

IsPrefix(s, t) == Len(s) <= Len(t) /\ \A i \in DOMAIN s : s[i] = t[i]

\* What getAuth does, as recorded by an invocation.
GetAuthOps ==
  {"getClient", "JSON.parse", "hasValidToken", "getNewToken", "setTimeout", "saveSettings"}

\* C15: ordering within one invocation.  Everything getAuth does precedes
\* findOrCreateDoc; the remote-store calls are issued in the order
\* findOrCreateDoc, hasOpenComments, updateHtml (a push) or findOrCreateDoc
\* alone followed by the browser launch of the document (an open);
\* updateHtml is issued only after hasOpenComments has answered, and not
\* with true; the call an invocation is waiting for is the last one it
\* issued, so no two of its remote calls are outstanding at once.
C15_OrderWithinInvocation ==
  \A p \in Procs :
    Started(p) =>
      /\ IsPrefix(RemoteOpsOf(p), RemoteOrder(call[p].kind))
      /\ \A i \in DOMAIN trace[p], j \in DOMAIN trace[p] :
           ( /\ trace[p][i].op \in GetAuthOps
             /\ trace[p][j].op \in RemoteStoreOps \cup {"opn"} ) => i < j
      /\ \A j \in Indices(p, "opn") :
           /\ call[p].kind = "open"
           /\ j = Len(trace[p])
           /\ trace[p][j - 1].op = "findOrCreateDoc"
      /\ \A j \in Indices(p, "updateHtml") :
           Indices(p, "hasOpenComments") # {} =>
             /\ trace[p][j - 1].op = "hasOpenComments returns"
             /\ trace[p][j - 1].text = "false"
             /\ trace[p][j - 2].op = "hasOpenComments"
      /\ ~AuthOver(p) => RemoteOpsOf(p) = <<>>
      /\ call[p].pc \in RemoteStoreOps =>
           /\ RemoteOpsOf(p) # <<>>
           /\ RemoteOpsOf(p)[Len(RemoteOpsOf(p))] = call[p].pc
      /\ call[p].outcome \in {"updated", "opened"} =>
           RemoteOpsOf(p) = RemoteOrder(call[p].kind)

C15_Witness ==
  \E p \in Procs :
    /\ build = "main"
    /\ call[p].kind = "push"
    /\ call[p].authOutcome = "authorized"
    /\ call[p].outcome = "updated"
    /\ RemoteOpsOf(p) = <<"findOrCreateDoc", "hasOpenComments", "updateHtml">>

\* The step is the success step of an authorization round-trip: some
\* invocation's tokenPromise resolves and getAuth stores what it yielded.
SuccessStep ==
  \E p \in Procs :
    /\ call[p].pc = "tokenPromise"
    /\ call'[p].authOutcome = "authorized"
    /\ settings'.tokens = JSONstringify([access |-> call[p].server])

\* The step is an edit in the settings tab (no invocation moves).
SettingsTabStep == call' = call /\ trace' = trace /\ events' = events + 1

\* C16 (as claimed): settings.tokens changes only in the success step of an
\* authorization round-trip inside getAuth; every other step, settings tab
\* edits included, leaves it unchanged.
C16_OnlyGetAuthChangesTokens ==
  [][settings'.tokens # settings.tokens => SuccessStep]_vars

\* C16 (amended): settings.tokens changes only in the success step of an
\* authorization round-trip or by an edit of the Tokens field in the
\* settings tab, which stores whatever text was typed; the other settings
\* fields' edits, the steps of push and open, and rejected or failed getAuth
\* calls leave it unchanged.
C16_TokensChangedByGetAuthOrTokensField ==
  [][settings'.tokens # settings.tokens =>
       \/ SuccessStep
       \/ /\ SettingsTabStep
          /\ settings'.tokens \in TokenBlobs
          /\ settings'.credentials = settings.credentials
          /\ settings'.googleDriveFolderId = settings.googleDriveFolderId
          /\ saving']_vars

\* The Tokens field has been edited: the stored blob is one no round-trip of
\* this run has produced and differs from what the one invocation found.
C16_Witness ==
  /\ events = 2
  /\ \E p \in Procs :
       /\ call[p].authOutcome = "authorized"
       /\ settings.tokens # JSONstringify([access |-> call[p].server])
       /\ settings.tokens # call[p].entryTokens
       /\ call[2].pc = "idle"

\* Of the token blobs, the one that is not empty and is not the text of a
\* JSON value.
CutOffText == <<"{">>

\* The invocation found valid credentials and a token blob that is not
\* empty and that JSON.parse cannot read.
FoundUnparseableTokens(p) ==
  /\ Started(p)
  /\ ~getClientThrows(call[p].entryCredentials)
  /\ call[p].entryTokens = CutOffText

C17_Rejected ==
  \A p \in Procs :
    FoundUnparseableTokens(p)
    => /\ Count(p, "hasValidToken") = 0
       /\ Count(p, "getNewToken") = 0
       /\ Count(p, "setTimeout") = 0
       /\ Count(p, "saveSettings") = 0
       /\ Count(p, "opn") = 0
       /\ call[p].server = Null
       /\ ~GuardEngaged(call[p].entryGuard) =>
            /\ call[p].authOutcome = "syntax"
            /\ call[p].pc = "done" /\ call[p].outcome = "rejected"
            /\ trace[p][Len(trace[p])] = Event("JSON.parse", NoUrl, 0, "throws")
       /\ GuardEngaged(call[p].entryGuard) => call[p].authOutcome = "inProgress"

C17_Step ==
  \A p \in Procs :
    ( /\ FoundUnparseableTokens(p)'
      /\ (call'[p] # call[p] \/ trace'[p] # trace[p]) )
    => UNCHANGED <<settings, authorizationServer, timers, browser, listeners, saving>>

FoundGuardEngaged(p) == Started(p) /\ call[p].entryGuard # Null

C18_Rejected ==
  \A p \in Procs :
    FoundGuardEngaged(p)
    => /\ call[p].authOutcome = "inProgress"
       /\ trace[p][1] = Notice("Already authenticating, complete authorization.")
       /\ \A i \in DOMAIN trace[p] :
            trace[p][i].op \notin GetAuthOps \cup {"clipboard.writeText", "opn"}
       /\ Len(Notices(p)) = IF call[p].kind = "open" /\ build = "main" THEN 2 ELSE 1
       /\ call[p].server = Null
       /\ call[p].auth = Undefined

C18_Step ==
  \A p \in Procs :
    ( /\ FoundGuardEngaged(p)'
      /\ (call'[p] # call[p] \/ trace'[p] # trace[p]) )
    => UNCHANGED <<settings, authorizationServer, clipboard, timers, browser,
                   listeners, saving, validTokens>>

\* C18: a getAuth call (in part_000, a createGoogleDoc call) that finds the
\* guard engaged on entry touches no collaborator and no state: it calls
\* neither getClient, hasValidToken nor getNewToken, schedules no browser
\* launch, writes nothing to the clipboard, yields no credential, and leaves
\* settings.tokens and the guard unchanged; the already-authenticating
\* notice is all it does.  (The one other notice such an invocation can
\* show is openGoogleDoc's own, after getAuth has returned.)
C18_EngagedGuardRejectsUntouched == []C18_Rejected /\ [][C18_Step]_vars

C18_Witness ==
  \E p \in Procs, q \in Procs :
    /\ FoundGuardEngaged(p)
    /\ call[p].authOutcome = "inProgress"
    /\ call[q].pc = "tokenPromise"
    /\ authorizationServer = call[q].server
    /\ clipboard = authorizeUrlOf(call[q].server)

\* The document links an invocation has copied (the authorize url, which a
\* push that had to authorize copies first, is not one).
LinkWrites(p) ==
  SelectSeq(ClipboardWrites(p), LAMBDA e : e.url.base = "https://docs.google.com/document/d/")

====
